---- MODULE Spec2Model ----
(***************************************************************************)
(* Model of the Google Maps integration (pnbruckner/ha-google-maps).       *)
(*                                                                         *)
(* Part 1: ConfigUniqueIDs (helpers.py), the unique ID ownership registry. *)
(* Part 2: the code paths of the integration that call the registry: the   *)
(*         config entry set-up / unload / remove handlers (__init__.py)    *)
(*         and the device tracker platform's create_entities callback      *)
(*         (device_tracker.py).                                            *)
(*                                                                         *)
(* The variable last records the most recent call made in Spec; the        *)
(* integration's handlers leave it alone.                                  *)
(*                                                                         *)
(* Spec      : the registry driven by arbitrary take / release / remove /  *)
(*             empty calls from any configuration.                         *)
(* SpecInteg : the registry driven only by the integration's own handlers. *)
(*                                                                         *)
(* Part 3: GoogleMapsDeviceTracker (device_tracker.py), one tracked entity *)
(*         and the entry of coordinator.data for its person.               *)
(*                                                                         *)
(* SpecLoc   : one entity, added to hass and then fed the outcome of each  *)
(*             poll cycle of its coordinator.                              *)
(*                                                                         *)
(* Part 4: GMDataUpdateCoordinator (coordinator.py): the coroutines that   *)
(*         use the API session and the cookies file, each a process that   *)
(*         moves from one await to the next.                               *)
(*                                                                         *)
(* SpecCoord : set-up, polls, cookie saves, the options flow's check and   *)
(*             the shutdown of one coordinator, interleaved.               *)
(*                                                                         *)
(* Part 5: GMLocSharing.get_new_data (gm_loc_sharing.py), a function of    *)
(*         the server's response.                                          *)
(*                                                                         *)
(* SpecApi   : get_new_data applied to every response.                     *)
(***************************************************************************)
EXTENDS Integers, FiniteSets, Sequences, TLC

\* ------------------------------------------------------------------ bounds
NumConfigs == 2
NumUIDs == 2

MaxAccuracy == 2
MaxTime == 2

\* the longest parsed response; get_new_data indexes offset 6
MaxDataLen == 7

\* the count of scheduled expiration-warning callbacks stops here
MaxScheduled == 2

ConfigIDs == 1..NumConfigs
UniqueIDs == 1..NumUIDs

\* LocationData (helpers.py): gps_accuracy is an int, last_seen a datetime;
\* latitude and longitude travel with address, the filter reads none of them
Accuracies == 0..MaxAccuracy
Times == 1..MaxTime
Addresses == {"addr1"}
LocationData ==
    [address : Addresses, gps_accuracy : Accuracies, last_seen : Times]
NoLoc == [address |-> "None", gps_accuracy |-> -1, last_seen |-> 0]

\* MiscData (helpers.py), as a whole
Miscs == {"misc1", "misc2"}
NoMisc == "None"

\* PersonData, and the result of coordinator.data.get(uid) for a missing uid
PersonData == [loc : LocationData, misc : Miscs]
NoData == [loc |-> NoLoc, misc |-> NoMisc]

VARIABLES
    all_uids,      \* ConfigUniqueIDs._all_uids : set[UniqueID]
    cfg_uids,      \* ConfigUniqueIDs._cfg_uids : dict[ConfigID, set[UniqueID]]
    last,          \* the most recent registry call: its arguments and outcome
    gmi_data,      \* whether hass.data[DOMAIN] (which holds the registry) exists
    ent_reg,       \* Entity Registry: per config entry, its entities' unique IDs
    phase,         \* per config entry: where it is in its life cycle
    data,          \* per config entry: keys of coordinator.data
    created_uids,  \* per config entry: created_uids of its tracker platform
    add_entities,  \* the async_add_entities call of the latest step, if any
    removed_uids,  \* the unique IDs the latest async_remove_entry released
    observing,     \* whether add_entities and removed_uids are being recorded
    loc,           \* GoogleMapsDeviceTracker._loc
    misc,          \* GoogleMapsDeviceTracker._misc
    skip_reason,   \* GoogleMapsDeviceTracker._skip_reason
    max_gps_accuracy, \* GoogleMapsDeviceTracker._max_gps_accuracy
    cdata,         \* coordinator.data.get(uid) for the entity's person
    added,         \* whether async_added_to_hass has run
    upd,           \* the latest _update_loc call: its outcome and the location
                   \* held when it was made
    poll,          \* the latest _async_update_data call: how the fetch ended,
                   \* what the call raised, whether it created the save task,
                   \* how that task's save went
    last_update_success, \* DataUpdateCoordinator.last_update_success
    lock,          \* cookie_lock: the process that holds it, or "none"
    waiters,       \* cookie_lock: the processes waiting for it, in order
    pc,            \* per process: the await it is at
    cookies_changed,   \* GMLocSharing.cookies_changed
    recently_synced,   \* utcnow() - _cookies_last_synced < 15 minutes
    recently_written,  \* save_cookies ran less than 15 minutes ago
    expiration,    \* GMLocSharing.cookies_expiration: none, soon or later
    unsub_exp,     \* whether the callback behind _unsub_exp is scheduled
    scheduled,     \* how many expiration-warning callbacks are scheduled
    unsub_final_write, \* whether the final-write listener is registered
    issue,         \* whether the "expiring soon" repair issue exists
    setup_result,  \* the latest _async_setup call: how the load ended and
                   \* what the call raised
    response,      \* the server's response to the request of get_new_data
    outcome        \* what get_new_data raised for it ("none": it returned)

coord_vars == <<lock, waiters, pc, cookies_changed, recently_synced,
                recently_written, expiration,
                unsub_exp, scheduled, unsub_final_write, issue, setup_result>>
api_vars == <<response, outcome>>
loc_vars == <<loc, misc, skip_reason, max_gps_accuracy, cdata, added, upd, poll,
              last_update_success, coord_vars, api_vars>>
reg_vars == <<all_uids, cfg_uids>>
integ_vars == <<gmi_data, ent_reg, phase, data, created_uids, add_entities,
                removed_uids, observing, loc_vars>>
vars == <<all_uids, cfg_uids, last, integ_vars>>

\* ------------------------------------------------- ConfigUniqueIDs (pure)
\* A dict is a function whose DOMAIN is the set of its keys.

\* dict.get(cid, set())
owned(cu, cid) == IF cid \in DOMAIN cu THEN cu[cid] ELSE {}

own(cu, cid, uid) == uid \in owned(cu, cid)

owned_by_others(au, cu, cid) == au \ owned(cu, cid)

\* _cfg_uids after owned (and so after own and owned_by_others): get() adds no
\* key, and the caller receives a frozenset copy
owned_cfg_setdefault(cu, cid) ==
    [c \in DOMAIN cu \cup {cid} |-> IF c \in DOMAIN cu THEN cu[c] ELSE {}]

owned_cfg(cu, cid) == cu

\* the value take returns (uids after line 273)
take_uids_keep_all(au, cu, cid, uids) == uids

take_uids_minus_claimed(au, cu, cid, uids) == uids \ au

take_uids(au, cu, cid, uids) == uids \ owned_by_others(au, cu, cid)

\* _all_uids after take
take_all(au, cu, cid, uids) == au \cup take_uids(au, cu, cid, uids)

\* _cfg_uids after take: setdefault(cid, set()).update(uids)
take_cfg_assign(au, cu, cid, uids) ==
    [c \in DOMAIN cu \cup {cid} |->
        IF c = cid THEN take_uids(au, cu, cid, uids) ELSE cu[c]]

take_cfg(au, cu, cid, uids) ==
    [c \in DOMAIN cu \cup {cid} |->
        IF c = cid THEN owned(cu, cid) \cup take_uids(au, cu, cid, uids)
                   ELSE cu[c]]

\* release: the early return of line 280-281
release_returns_early_never(au, cu, cid, uid) == FALSE

release_returns_early(au, cu, cid, uid) == uid \in owned_by_others(au, cu, cid)

\* release: self._cfg_uids[cid] of line 283 raises KeyError for a missing key
release_exc(au, cu, cid, uid) ==
    IF ~release_returns_early(au, cu, cid, uid) /\ cid \notin DOMAIN cu
    THEN "KeyError" ELSE "none"

\* _all_uids after release (line 282 runs before line 283 can raise)
release_all_keep(au, cu, cid, uid) == au

release_all(au, cu, cid, uid) ==
    IF release_returns_early(au, cu, cid, uid) THEN au ELSE au \ {uid}

\* _cfg_uids after release
release_cfg(au, cu, cid, uid) ==
    IF release_returns_early(au, cu, cid, uid) \/ cid \notin DOMAIN cu
    THEN cu
    ELSE [cu EXCEPT ![cid] = @ \ {uid}]

\* _all_uids after remove: difference_update(pop(cid, set()))
remove_all_keep(au, cu, cid) == au

remove_all(au, cu, cid) == au \ owned(cu, cid)

\* _cfg_uids after remove: pop(cid, ...)
remove_cfg_clear(cu, cid) == [c \in {} |-> {}]

remove_cfg(cu, cid) == [c \in DOMAIN cu \ {cid} |-> cu[c]]

\* the empty property: "True", "False", or the assert of line 251 failing
empty(au, cu) ==
    IF au = {}
    THEN IF DOMAIN cu = {} THEN "True" ELSE "AssertionError"
    ELSE "False"

\* ------------------------------------------------------------- seeding
\* The Entity Registry keys entities by (domain, platform, unique ID), so a
\* unique ID is registered to at most one config entry.
EntityRegistries ==
    { er \in UNION { [D -> SUBSET UniqueIDs] : D \in SUBSET ConfigIDs } :
        \A a, b \in DOMAIN er : a # b => er[a] \cap er[b] = {} }

\* ConfigUniqueIDs.__init__: one entry per config entry, empty ones included
init_cfg_uids(er) == er

init_all_uids(er) == UNION { er[c] : c \in DOMAIN er }

\* no async_add_entities call
NoAdd == [cid |-> 0, uids |-> {}]

\* last.pre_owned is owned(cid) as it was when the call was made
NoCall == [op |-> "none", cid |-> 0, uids |-> {}, pre_owned |-> {}, ret |-> {},
           exc |-> "none", val |-> "none"]

\* no tracked entity: the registry and the set-up handlers do not use one
NoUpdate ==
    [outcome |-> "none", prev |-> NoLoc, logged |-> FALSE, misc |-> NoMisc]

NoReason == <<"">>

NoPoll == [exc |-> "none", raised |-> "none", save_task |-> FALSE, save |-> "none"]
NoSetup == [exc |-> "none", raised |-> "none"]

\* the processes of one coordinator: _async_setup, a refresh
\* (_async_update_data), the save task it creates, the final-write listener,
\* async_shutdown, and the options flow's check of the cookies file
Procs == {"setup", "poll", "post", "final", "shutdown", "options"}
Expirations == {"none", "soon", "later"}

\* a response: whether the request got one, what its text parses to, the
\* length of the parsed value and, for a list, its element at offset 6
Responses ==
    [transport : {"ok", "RequestException", "MaxRetryError"},
     body : {"unparseable", "dict", "str", "list"},
     len : 0..MaxDataLen,
     at6 : {"GgA=", "other"}]
NoResponse == [transport |-> "none", body |-> "none", len |-> 0, at6 |-> "none"]

\* the coordinator right after __init__ (coordinator.py lines 55-74)
InitCoordinator ==
    /\ response = NoResponse
    /\ outcome = "pending"
    /\ lock = "none"
    /\ waiters = <<>>
    /\ pc = [p \in Procs |-> "idle"]
    /\ cookies_changed = FALSE
    /\ recently_synced = FALSE
    /\ recently_written = FALSE
    /\ expiration = "none"
    /\ unsub_exp = FALSE
    /\ scheduled = 0
    /\ unsub_final_write = TRUE
    /\ issue = FALSE
    /\ setup_result = NoSetup
    /\ poll = NoPoll
    /\ last_update_success = TRUE

InitNoEntity ==
    /\ loc = NoLoc
    /\ misc = NoMisc
    /\ skip_reason = NoReason
    /\ max_gps_accuracy = 0
    /\ cdata = NoData
    /\ added = FALSE
    /\ upd = NoUpdate

\* the integration's state before any config entry is set up, given the
\* contents of the Entity Registry
InitInteg(er) ==
    /\ InitCoordinator
    /\ ent_reg = [c \in ConfigIDs |-> IF c \in DOMAIN er THEN er[c] ELSE {}]
    /\ phase = [c \in ConfigIDs |->
                  IF c \in DOMAIN er THEN "not_loaded" ELSE "absent"]
    /\ data = [c \in ConfigIDs |-> {}]
    /\ created_uids = [c \in ConfigIDs |-> {}]
    /\ add_entities = NoAdd
    /\ removed_uids = {}
    /\ observing = FALSE
    /\ last = NoCall
    /\ InitNoEntity

\* the registry right after its construction; Spec drives the registry object
\* alone and does not use the integration's variables
Init ==
    /\ \E er \in EntityRegistries :
          /\ all_uids = init_all_uids(er)
          /\ cfg_uids = init_cfg_uids(er)
    /\ gmi_data = TRUE
    /\ InitInteg([c \in {} |-> {}])

\* ------------------------------------------- registry calls (Spec)
Take(cid, uids) ==
    /\ all_uids' = take_all(all_uids, cfg_uids, cid, uids)
    /\ cfg_uids' = take_cfg(all_uids, cfg_uids, cid, uids)
    /\ last' = [op |-> "take", cid |-> cid, uids |-> uids,
                pre_owned |-> owned(cfg_uids, cid),
                ret |-> take_uids(all_uids, cfg_uids, cid, uids),
                exc |-> "none", val |-> "none"]
    /\ UNCHANGED integ_vars

Release(cid, uid) ==
    /\ all_uids' = release_all(all_uids, cfg_uids, cid, uid)
    /\ cfg_uids' = release_cfg(all_uids, cfg_uids, cid, uid)
    /\ last' = [op |-> "release", cid |-> cid, uids |-> {uid},
                pre_owned |-> owned(cfg_uids, cid), ret |-> {},
                exc |-> release_exc(all_uids, cfg_uids, cid, uid),
                val |-> "none"]
    /\ UNCHANGED integ_vars

Remove(cid) ==
    /\ all_uids' = remove_all(all_uids, cfg_uids, cid)
    /\ cfg_uids' = remove_cfg(cfg_uids, cid)
    /\ last' = [op |-> "remove", cid |-> cid, uids |-> {},
                pre_owned |-> owned(cfg_uids, cid), ret |-> {},
                exc |-> "none", val |-> "none"]
    /\ UNCHANGED integ_vars

Empty ==
    /\ last' = [op |-> "empty", cid |-> 0, uids |-> {}, pre_owned |-> {},
                ret |-> {},
                exc |-> IF empty(all_uids, cfg_uids) = "AssertionError"
                        THEN "AssertionError" ELSE "none",
                val |-> empty(all_uids, cfg_uids)]
    /\ UNCHANGED reg_vars
    /\ UNCHANGED integ_vars

\* the queries; own and owned_by_others call owned
Owned(cid) ==
    /\ cfg_uids' = owned_cfg(cfg_uids, cid)
    /\ all_uids' = all_uids
    /\ last' = [op |-> "owned", cid |-> cid, uids |-> {},
                pre_owned |-> owned(cfg_uids, cid),
                ret |-> owned(cfg_uids, cid), exc |-> "none", val |-> "none"]
    /\ UNCHANGED integ_vars

Own(cid, uid) ==
    /\ cfg_uids' = owned_cfg(cfg_uids, cid)
    /\ all_uids' = all_uids
    /\ last' = [op |-> "own", cid |-> cid, uids |-> {uid},
                pre_owned |-> owned(cfg_uids, cid), ret |-> {}, exc |-> "none",
                val |-> IF own(cfg_uids, cid, uid) THEN "True" ELSE "False"]
    /\ UNCHANGED integ_vars

OwnedByOthers(cid) ==
    /\ cfg_uids' = owned_cfg(cfg_uids, cid)
    /\ all_uids' = all_uids
    /\ last' = [op |-> "owned_by_others", cid |-> cid, uids |-> {},
                pre_owned |-> owned(cfg_uids, cid),
                ret |-> owned_by_others(all_uids, cfg_uids, cid),
                exc |-> "none", val |-> "none"]
    /\ UNCHANGED integ_vars

TakeCall == \E cid \in ConfigIDs, uids \in SUBSET UniqueIDs : Take(cid, uids)
ReleaseCall == \E cid \in ConfigIDs, uid \in UniqueIDs : Release(cid, uid)
RemoveCall == \E cid \in ConfigIDs : Remove(cid)
OwnedCall == \E cid \in ConfigIDs : Owned(cid)
OwnCall == \E cid \in ConfigIDs, uid \in UniqueIDs : Own(cid, uid)
OwnedByOthersCall == \E cid \in ConfigIDs : OwnedByOthers(cid)

Next ==
    \/ TakeCall
    \/ ReleaseCall
    \/ RemoveCall
    \/ Empty
    \/ OwnedCall
    \/ OwnCall
    \/ OwnedByOthersCall

Spec == Init /\ [][Next]_vars

\* --------------------------------------- the integration (SpecInteg)
\* entry.data[CONF_USERNAME]: the unique ID of the "account person"
username(cid) == ((cid - 1) % NumUIDs) + 1

\* hass.config_entries.async_entries(DOMAIN)
async_entries == { c \in ConfigIDs : phase[c] \notin {"absent", "removed"} }

\* gmi_data.coordinators: set at line 551, deleted by async_unload_entry
coordinators == { c \in ConfigIDs : phase[c] \in {"refreshed", "loaded"} }

\* er.async_entries_for_config_entry for the entries that exist, cid included
seed(cid) == [c \in async_entries \cup {cid} |-> ent_reg[c]]

\* __init__.async_setup_entry up to its first await (lines 446-475)
SetupEntry(cid, create_acct_entity) ==
    /\ phase[cid] \in {"absent", "not_loaded"}
    /\ phase' = [phase EXCEPT ![cid] = "setup"]
    /\ gmi_data' = TRUE
    /\ LET au == IF gmi_data THEN all_uids ELSE init_all_uids(seed(cid))
           cu == IF gmi_data THEN cfg_uids ELSE init_cfg_uids(seed(cid))
           un == username(cid)
       IN  IF create_acct_entity
           THEN IF ~own(cu, cid, un)
                THEN /\ all_uids' = take_all(au, cu, cid, {un})
                     /\ cfg_uids' = take_cfg(au, cu, cid, {un})
                     /\ ent_reg' = [ent_reg EXCEPT ![cid] =
                                       @ \cup take_uids(au, cu, cid, {un})]
                ELSE /\ all_uids' = au
                     /\ cfg_uids' = cu
                     /\ UNCHANGED ent_reg
           ELSE IF own(cu, cid, un)
                THEN /\ all_uids' = release_all(au, cu, cid, un)
                     /\ cfg_uids' = release_cfg(au, cu, cid, un)
                     /\ ent_reg' = [ent_reg EXCEPT ![cid] = @ \ {un}]
                ELSE /\ all_uids' = au
                     /\ cfg_uids' = cu
                     /\ UNCHANGED ent_reg
    /\ add_entities' = NoAdd
    /\ UNCHANGED <<last, data, created_uids, removed_uids, observing>>
    /\ UNCHANGED loc_vars

\* coordinator.async_config_entry_first_refresh() succeeds (lines 550-551)
FirstRefresh(cid, people) ==
    /\ phase[cid] = "setup"
    /\ phase' = [phase EXCEPT ![cid] = "refreshed"]
    /\ data' = [data EXCEPT ![cid] = people]
    /\ add_entities' = NoAdd
    /\ UNCHANGED <<all_uids, cfg_uids, last, gmi_data, ent_reg, created_uids,
                   removed_uids, observing>>
    /\ UNCHANGED loc_vars

\* the first refresh raises: the entry is not set up
FirstRefreshFailed(cid) ==
    /\ phase[cid] = "setup"
    /\ phase' = [phase EXCEPT ![cid] = "not_loaded"]
    /\ add_entities' = NoAdd
    /\ UNCHANGED <<all_uids, cfg_uids, last, gmi_data, ent_reg, data,
                   created_uids, removed_uids, observing>>
    /\ UNCHANGED loc_vars

\* create_uids of create_entities (lines 195-197): what take returned,
\* less what this platform set-up has created
create_uids_all(taken, created) == taken

create_uids(taken, created) == taken \ created

\* the argument of the first create_entities call (line 206)
setup_reg_uids_none(cu, cid) == {}

setup_reg_uids(cu, cid) == owned(cu, cid)

\* device_tracker create_entities (lines 192-204), given created_uids;
\* async_add_entities is called only with a non-empty list
create_entities(cid, reg_uids, created) ==
    LET uids == data'[cid] \cup reg_uids
        new_uids == create_uids(take_uids(all_uids, cfg_uids, cid, uids), created)
    IN  /\ all_uids' = take_all(all_uids, cfg_uids, cid, uids)
        /\ cfg_uids' = take_cfg(all_uids, cfg_uids, cid, uids)
        /\ last' = last
        /\ add_entities' = IF new_uids = {} \/ ~observing THEN NoAdd
                           ELSE [cid |-> cid, uids |-> new_uids]
        /\ created_uids' = [created_uids EXCEPT ![cid] = created \cup new_uids]
        /\ ent_reg' = [ent_reg EXCEPT ![cid] = @ \cup new_uids]
        /\ UNCHANGED <<removed_uids, observing>>

\* device_tracker.async_setup_entry (lines 181-207)
PlatformSetup(cid) ==
    /\ phase[cid] = "refreshed"
    /\ phase' = [phase EXCEPT ![cid] = "loaded"]
    /\ data' = data
    /\ create_entities(cid, setup_reg_uids(cfg_uids, cid), {})
    /\ UNCHANGED gmi_data
    /\ UNCHANGED loc_vars

\* the coordinator publishes a poll's data and calls its listeners
CoordinatorUpdate(cid, people) ==
    /\ phase[cid] = "loaded"
    /\ data' = [data EXCEPT ![cid] = people]
    /\ create_entities(cid, {}, created_uids[cid])
    /\ UNCHANGED <<gmi_data, phase>>
    /\ UNCHANGED loc_vars

\* async_unload_entry (lines 596-602): the platforms are unloaded and the
\* coordinator, with its data, is dropped
UnloadEntry(cid) ==
    /\ phase[cid] = "loaded"
    /\ phase' = [phase EXCEPT ![cid] = "not_loaded"]
    /\ created_uids' = [created_uids EXCEPT ![cid] = {}]
    /\ data' = [data EXCEPT ![cid] = {}]
    /\ add_entities' = NoAdd
    /\ UNCHANGED <<all_uids, cfg_uids, last, gmi_data, ent_reg, removed_uids,
                   observing>>
    /\ UNCHANGED loc_vars

\* async_remove_entry (lines 605-610); Home Assistant then drops the entry's
\* entities from the Entity Registry.  Without hass.data[DOMAIN] line 607
\* raises KeyError; a failing assert in empty ends the handler before line 610.
RemoveEntry(cid) ==
    /\ phase[cid] = "not_loaded"
    /\ phase' = [phase EXCEPT ![cid] = "removed"]
    /\ ent_reg' = [ent_reg EXCEPT ![cid] = {}]
    /\ IF gmi_data
       THEN /\ all_uids' = remove_all(all_uids, cfg_uids, cid)
            /\ cfg_uids' = remove_cfg(cfg_uids, cid)
            /\ gmi_data' = ~(coordinators = {}
                                /\ empty(all_uids', cfg_uids') = "True")
       ELSE UNCHANGED <<all_uids, cfg_uids, gmi_data>>
    /\ removed_uids' = IF observing /\ gmi_data THEN owned(cfg_uids, cid)
                                              ELSE removed_uids
    /\ add_entities' = NoAdd
    /\ UNCHANGED <<last, data, created_uids, observing>>
    /\ UNCHANGED loc_vars

SetupEntryStep ==
    \E cid \in ConfigIDs, create_acct_entity \in BOOLEAN :
        SetupEntry(cid, create_acct_entity)
FirstRefreshStep ==
    \E cid \in ConfigIDs, people \in SUBSET UniqueIDs : FirstRefresh(cid, people)
FirstRefreshFailedStep == \E cid \in ConfigIDs : FirstRefreshFailed(cid)
PlatformSetupStep == \E cid \in ConfigIDs : PlatformSetup(cid)
CoordinatorUpdateStep ==
    \E cid \in ConfigIDs, people \in SUBSET UniqueIDs :
        CoordinatorUpdate(cid, people)
UnloadEntryStep == \E cid \in ConfigIDs : UnloadEntry(cid)
RemoveEntryStep == \E cid \in ConfigIDs : RemoveEntry(cid)

\* Home Assistant before the first config entry is set up
InitHass ==
    \E er \in EntityRegistries :
        /\ all_uids = {}
        /\ cfg_uids = [c \in {} |-> {}]
        /\ gmi_data = FALSE
        /\ InitInteg(er)

NextInteg ==
    \/ SetupEntryStep
    \/ FirstRefreshStep
    \/ FirstRefreshFailedStep
    \/ PlatformSetupStep
    \/ CoordinatorUpdateStep
    \/ UnloadEntryStep
    \/ RemoveEntryStep

SpecInteg == InitHass /\ [][NextInteg]_vars

\* ------------------------------------- one set-up per entry (SpecPlat)
\* Two config entries exist (any further one is absent), the registry has
\* been seeded from the Entity Registry and both entries have made their first
\* refresh; from there each entry sets up its tracker platform, is updated,
\* unloaded and removed.  The async_add_entities calls and the released unique
\* IDs are recorded.
PlatEntries == {1, 2}

InitPlat ==
    \E er \in { r \in EntityRegistries : DOMAIN r = PlatEntries } :
        /\ all_uids = init_all_uids(er)
        /\ cfg_uids = init_cfg_uids(er)
        /\ gmi_data = TRUE
        /\ ent_reg = [c \in ConfigIDs |-> IF c \in PlatEntries THEN er[c] ELSE {}]
        /\ phase = [c \in ConfigIDs |->
                      IF c \in PlatEntries THEN "refreshed" ELSE "absent"]
        /\ data \in { d \in [ConfigIDs -> SUBSET UniqueIDs] :
                         \A c \in ConfigIDs \ PlatEntries : d[c] = {} }
        /\ created_uids = [c \in ConfigIDs |-> {}]
        /\ add_entities = NoAdd
        /\ removed_uids = {}
        /\ observing = TRUE
        /\ last = NoCall
        /\ InitCoordinator
        /\ InitNoEntity

NextPlat ==
    \/ PlatformSetupStep
    \/ CoordinatorUpdateStep
    \/ UnloadEntryStep
    \/ RemoveEntryStep

SpecPlat == InitPlat /\ [][NextPlat]_vars

\* ------------------------------- GoogleMapsDeviceTracker (SpecLoc)
\* line 367: prev_seen := self._loc and self._loc.last_seen; a datetime is
\* always true
has_prev_seen(prev) == prev # NoLoc

has_prev_gps_accuracy_always(prev) == TRUE

\* line 378: prev_gps_accuracy := self._loc and self._loc.gps_accuracy; the
\* int 0 is false
has_prev_gps_accuracy(prev) == prev # NoLoc /\ prev.gps_accuracy # 0

\* lines 368, 374: the two timestamp tests
went_backwards_never(last_seen, prev_seen) == FALSE

went_backwards(last_seen, prev_seen) == last_seen < prev_seen

same_timestamp_never(last_seen, prev_seen) == FALSE

same_timestamp(last_seen, prev_seen) == last_seen = prev_seen

\* line 383: the test against the limit, made when the previous location
\* is accurate
over_limit_or_equal(last_gps_accuracy, max_acc) == last_gps_accuracy >= max_acc

over_limit(last_gps_accuracy, max_acc) == last_gps_accuracy > max_acc

\* line 391: the test against an inaccurate previous location
worse_than_prev_or_equal(last_gps_accuracy, prev_gps_accuracy) ==
    last_gps_accuracy >= prev_gps_accuracy

worse_than_prev_never(last_gps_accuracy, prev_gps_accuracy) == FALSE

worse_than_prev(last_gps_accuracy, prev_gps_accuracy) ==
    last_gps_accuracy > prev_gps_accuracy

\* the path _update_loc takes for the held location prev and the new one
update_loc_outcome(prev, new, max_acc) ==
    IF has_prev_seen(prev) /\ went_backwards(new.last_seen, prev.last_seen)
    THEN "backwards"
    ELSE IF has_prev_seen(prev) /\ same_timestamp(new.last_seen, prev.last_seen)
    THEN "same"
    ELSE IF has_prev_gps_accuracy(prev)
    THEN IF prev.gps_accuracy <= max_acc
         THEN IF over_limit(new.gps_accuracy, max_acc) THEN "limit" ELSE "accepted"
         ELSE IF worse_than_prev(new.gps_accuracy, prev.gps_accuracy)
              THEN "worse" ELSE "accepted"
    ELSE "accepted"

\* self._loc after _update_loc (line 399, or one of the returns)
update_loc_always(prev, new, max_acc) == new

update_loc_widened(prev, new, max_acc) ==
    CASE update_loc_outcome(prev, new, max_acc) = "accepted" -> new
      [] update_loc_outcome(prev, new, max_acc) = "worse" ->
            [prev EXCEPT !.gps_accuracy = new.gps_accuracy]
      [] OTHER -> prev

update_loc(prev, new, max_acc) ==
    IF update_loc_outcome(prev, new, max_acc) = "accepted" THEN new ELSE prev

\* the reason text handed to _log_ignore_reason, with the values it embeds
ignore_reason(prev, new, max_acc) ==
    CASE update_loc_outcome(prev, new, max_acc) = "backwards" ->
            <<"timestamp went backwards", new.last_seen, prev.last_seen>>
      [] update_loc_outcome(prev, new, max_acc) = "limit" ->
            <<"GPS accuracy is greater than limit", new.gps_accuracy, max_acc>>
      [] update_loc_outcome(prev, new, max_acc) = "worse" ->
            <<"GPS accuracy is greater than limit and worse than previous",
              new.gps_accuracy, max_acc, prev.gps_accuracy>>
      [] OTHER -> NoReason

\* whether _update_loc writes a debug note (lines 403-405): it calls
\* _log_ignore_reason on three of its returns, and the note is written when
\* the reason differs from self._skip_reason
note_emitted_always(reason, prev, new, max_acc) ==
    update_loc_outcome(prev, new, max_acc) \in {"backwards", "limit", "worse"}

note_emitted(reason, prev, new, max_acc) ==
    /\ update_loc_outcome(prev, new, max_acc) \in {"backwards", "limit", "worse"}
    /\ ignore_reason(prev, new, max_acc) # reason

\* self._skip_reason after _update_loc (lines 401-404)
log_ignore_reason(reason, prev, new, max_acc) ==
    IF update_loc_outcome(prev, new, max_acc) \in {"backwards", "limit", "worse"}
    THEN ignore_reason(prev, new, max_acc)
    ELSE reason

\* _update_loc on the location prev, as a step
UpdateLoc(prev, new) ==
    /\ loc' = update_loc(prev, new, max_gps_accuracy)
    /\ skip_reason' = log_ignore_reason(skip_reason, prev, new, max_gps_accuracy)
    /\ upd' = [outcome |-> update_loc_outcome(prev, new, max_gps_accuracy),
               prev |-> prev,
               logged |-> note_emitted(skip_reason, prev, new, max_gps_accuracy),
               misc |-> misc]

\* the entity right after __init__ (lines 223-253): misc is taken from the
\* coordinator's data when the person is in it
InitLoc ==
    /\ cdata \in PersonData \cup {NoData}
    /\ max_gps_accuracy \in Accuracies
    /\ misc = cdata.misc
    /\ loc = NoLoc
    /\ skip_reason = NoReason
    /\ added = FALSE
    /\ upd = NoUpdate
    /\ InitCoordinator
    /\ all_uids = {}
    /\ cfg_uids = [c \in {} |-> {}]
    /\ last = NoCall
    /\ gmi_data = TRUE
    /\ ent_reg = [c \in ConfigIDs |-> {}]
    /\ phase = [c \in ConfigIDs |-> "absent"]
    /\ data = [c \in ConfigIDs |-> {}]
    /\ created_uids = [c \in ConfigIDs |-> {}]
    /\ add_entities = NoAdd
    /\ removed_uids = {}
    /\ observing = FALSE

loc_frame == <<all_uids, cfg_uids, last, gmi_data, ent_reg, phase, data,
               created_uids, add_entities, removed_uids, observing,
               max_gps_accuracy,
               coord_vars, api_vars>>

\* async_added_to_hass (lines 328-347); restored is the stored PersonData,
\* whose loc and misc may each be missing
AddedToHass(restored) ==
    /\ ~added
    /\ added' = TRUE
    /\ misc' = IF misc = NoMisc THEN restored.misc ELSE misc
    /\ IF cdata = NoData
       THEN /\ loc' = restored.loc
            /\ upd' = [outcome |-> "no_data", prev |-> restored.loc,
                        logged |-> FALSE, misc |-> misc]
            /\ UNCHANGED skip_reason
       ELSE UpdateLoc(restored.loc, cdata.loc)
    /\ UNCHANGED <<cdata, poll, last_update_success, loc_frame>>

\* self._misc after _handle_coordinator_update found the person (line 359,
\* which comes before the call of _update_loc)
handled_misc_on_acceptance(old, new, path) ==
    IF path = "accepted" THEN new ELSE old

handled_misc(old, new, path) == new

\* _handle_coordinator_update (lines 349-361)
handle_coordinator_update ==
    IF cdata' = NoData
    THEN /\ upd' = [outcome |-> "no_data", prev |-> loc, logged |-> FALSE,
                     misc |-> misc]
         /\ UNCHANGED <<loc, misc, skip_reason>>
    ELSE /\ misc' = handled_misc(misc, cdata'.misc,
                                  update_loc_outcome(loc, cdata'.loc, max_gps_accuracy))
         /\ UpdateLoc(loc, cdata'.loc)

\* _async_update_data (coordinator.py lines 115-129): what it raises when
\* the fetch (get_new_data, then get_people) ends with exc
FetchErrors == {"InvalidCookies", "RequestFailed", "InvalidData", "Exception"}

update_data_raised_as_failed(exc) ==
    CASE exc \in {"InvalidCookies", "RequestFailed", "InvalidData"} -> "UpdateFailed"
      [] OTHER -> exc

update_data_raised(exc) ==
    CASE exc = "InvalidCookies" -> "ConfigEntryAuthFailed"
      [] exc \in {"RequestFailed", "InvalidData"} -> "UpdateFailed"
      [] OTHER -> exc

\* line 126 is reached only when nothing was raised
save_task_created_always(exc) == TRUE

save_task_created(exc) == update_data_raised(exc) = "none"

update_data(exc) ==
    [exc |-> exc, raised |-> update_data_raised(exc),
     save_task |-> save_task_created(exc), save |-> "none"]

\* the coordinator calls its listeners after a refresh (always_update is
\* False, lines 72-74): never after a failure that follows a failure,
\* otherwise when the success flag or the data changed
listeners_updated(success, data_changed) ==
    /\ success \/ last_update_success
    /\ success # last_update_success \/ data_changed

\* one refresh of the coordinator: the fetch ends with exc or, when exc is
\* "none", returns person; others_changed tells whether the data of other
\* people changed
Refresh(exc, person, others_changed) ==
    /\ added
    /\ poll' = update_data(exc)
    /\ cdata' = IF poll'.raised = "none" THEN person ELSE cdata
    /\ last_update_success' = (poll'.raised = "none")
    /\ IF listeners_updated(poll'.raised = "none",
                            cdata' # cdata \/ (others_changed /\ exc = "none"))
       THEN handle_coordinator_update
       ELSE /\ upd' = NoUpdate
            /\ UNCHANGED <<loc, misc, skip_reason>>
    /\ UNCHANGED <<added, loc_frame>>

AddedToHassStep ==
    \E restored \in [loc : LocationData \cup {NoLoc}, misc : Miscs \cup {NoMisc}] :
        AddedToHass(restored)
RefreshStep ==
    \/ \E person \in PersonData \cup {NoData}, others_changed \in BOOLEAN :
            Refresh("none", person, others_changed)
    \/ \E exc \in FetchErrors : Refresh(exc, NoData, FALSE)

NextLoc ==
    \/ AddedToHassStep
    \/ RefreshStep

SpecLoc == InitLoc /\ [][NextLoc]_vars

\* ------------------------------------- GMDataUpdateCoordinator (SpecCoord)
\* asyncio.Lock.acquire returns at once only when the lock is free and
\* nobody waits for it
lock_free_always(l, w) == TRUE

lock_free(l, w) == l = "none" /\ w = <<>>

\* async with self.cookie_lock, entered by process p
LockAcquire(p) ==
    IF lock_free(lock, waiters)
    THEN /\ lock' = p
         /\ pc' = [pc EXCEPT ![p] = "locked"]
         /\ UNCHANGED waiters
    ELSE /\ waiters' = Append(waiters, p)
         /\ pc' = [pc EXCEPT ![p] = "wait"]
         /\ UNCHANGED lock

\* leaving the async with block: the lock goes to the first waiter;
\* next_pc is where the processes are once the holder has left
LockRelease(next_pc) ==
    IF waiters = <<>>
    THEN /\ lock' = "none"
         /\ pc' = next_pc
         /\ UNCHANGED waiters
    ELSE /\ lock' = Head(waiters)
         /\ waiters' = Tail(waiters)
         /\ pc' = [next_pc EXCEPT ![Head(waiters)] = "locked"]

\* the executor job on the coordinator's API session that p awaits
running(p) ==
    IF pc[p] # "job" THEN "none"
    ELSE CASE p = "setup" -> "load_cookies"
           [] p = "poll" -> "get_new_data"
           [] p \in {"post", "final", "shutdown"} -> "save_cookies"
           [] OTHER -> "none"

\* _cookies_file_synced (lines 158-172) with the expiration exp
synced_issue(exp) == exp = "soon"

synced_unsub_exp(exp, shutting_down) ==
    IF exp = "later" /\ ~shutting_down THEN TRUE ELSE unsub_exp

\* _unsub_expiration (lines 97-101): the callbacks left scheduled, of n, when
\* the one behind _unsub_exp is live or not
unsub_expiration_skipped(n, live) == n

unsub_expiration(n, live) == IF live THEN n - 1 ELSE n

\* the callbacks scheduled after _cookies_file_synced (lines 166-172)
synced_scheduled(exp, shutting_down) ==
    IF exp = "later" /\ ~shutting_down
    THEN IF unsub_expiration(scheduled, unsub_exp) < MaxScheduled
         THEN unsub_expiration(scheduled, unsub_exp) + 1
         ELSE MaxScheduled
    ELSE scheduled

CookiesFileSynced(exp, shutting_down) ==
    /\ recently_synced' = TRUE
    /\ issue' = synced_issue(exp)
    /\ unsub_exp' = synced_unsub_exp(exp, shutting_down)
    /\ scheduled' = synced_scheduled(exp, shutting_down)

coord_frame == <<all_uids, cfg_uids, last, gmi_data, ent_reg, phase, data,
                 created_uids, add_entities, removed_uids, observing, loc, misc,
                 skip_reason, max_gps_accuracy, cdata, added, upd,
                 last_update_success, api_vars>>

\* _async_setup (lines 103-113): what it raises when load_cookies ends with exc
LoadErrors == {"InvalidCookiesFile", "InvalidCookies", "Exception"}

setup_raised(exc) ==
    IF exc \in {"InvalidCookiesFile", "InvalidCookies"}
    THEN "ConfigEntryAuthFailed" ELSE exc

\* _async_setup up to its await of the lock
SetupStart ==
    /\ pc["setup"] = "idle"
    /\ LockAcquire("setup")
    /\ UNCHANGED <<cookies_changed, recently_synced, recently_written, expiration, unsub_exp, scheduled,
                   unsub_final_write, issue, setup_result, poll, coord_frame>>

\* the executor job of the process that holds the lock starts
StartJob(p) ==
    /\ p \in {"setup", "poll", "options"}
    /\ pc[p] = "locked"
    /\ pc' = [pc EXCEPT ![p] = "job"]
    /\ UNCHANGED <<lock, waiters, cookies_changed, recently_synced, recently_written, expiration,
                   unsub_exp, scheduled, unsub_final_write, issue, setup_result, poll,
                   coord_frame>>

\* load_cookies ends with exc or, when exc is "none", with cookies that
\* expire at exp
SetupLoaded(exc, exp) ==
    /\ pc["setup"] = "job"
    /\ setup_result' = [exc |-> exc, raised |-> setup_raised(exc)]
    /\ IF exc = "none"
       THEN /\ cookies_changed' = FALSE
            /\ expiration' = exp
            /\ CookiesFileSynced(exp, FALSE)
            /\ LockRelease([pc EXCEPT !["setup"] = "done"])
       ELSE /\ LockRelease([pc EXCEPT !["setup"] = "failed"])
            /\ UNCHANGED <<cookies_changed, recently_synced, expiration,
                           unsub_exp, scheduled, issue>>
    /\ UNCHANGED <<recently_written, unsub_final_write, poll, coord_frame>>

\* a refresh starts: _async_update_data up to its await of the lock; no
\* refresh starts before set-up is done or after shutdown was requested
PollStart ==
    /\ pc["poll"] = "idle"
    /\ pc["setup"] = "done"
    /\ pc["shutdown"] = "idle"
    /\ LockAcquire("poll")
    /\ UNCHANGED <<cookies_changed, recently_synced, recently_written, expiration, unsub_exp, scheduled,
                   unsub_final_write, issue, setup_result, poll, coord_frame>>

\* line 126: the save task is created and awaited after the async with
\* block has been left
AwaitSaveTask_locked ==
    /\ pc' = [pc EXCEPT !["poll"] = "await_save", !["post"] = "created"]
    /\ UNCHANGED <<lock, waiters>>

AwaitSaveTask ==
    LockRelease([pc EXCEPT !["poll"] = "await_save", !["post"] = "created"])

\* the fetch ends with exc; the response may have changed the session's
\* cookies, which then expire at exp
PollFetched(exc, changed, exp) ==
    /\ pc["poll"] = "job"
    /\ poll' = update_data(exc)
    /\ cookies_changed' = (cookies_changed \/ changed)
    /\ expiration' = IF changed THEN exp ELSE expiration
    /\ IF poll'.save_task
       THEN AwaitSaveTask
       ELSE LockRelease([pc EXCEPT !["poll"] = "idle"])
    /\ UNCHANGED <<recently_synced, recently_written, unsub_exp, scheduled, unsub_final_write, issue,
                   setup_result, coord_frame>>

\* the save task has ended: _async_update_data returns, or raises what the
\* task raised
PollDone ==
    /\ pc["poll"] = "await_save"
    /\ pc["post"] \in {"idle", "raised"}
    /\ pc' = [pc EXCEPT !["poll"] = "idle", !["post"] = "idle"]
    /\ poll' = IF pc["post"] = "raised"
               THEN [poll EXCEPT !.raised = poll.save] ELSE poll
    /\ UNCHANGED <<lock, waiters, cookies_changed, recently_synced,
                   recently_written, expiration, unsub_exp, scheduled, unsub_final_write,
                   issue, setup_result, coord_frame>>

\* _save_cookies_if_changed (lines 131-156) runs as the task created after a
\* fetch, as the final-write listener and inside async_shutdown
Savers == {"post", "final", "shutdown"}

\* line 137: shutting_down |= bool(event)
shutting_down(p) == p # "post"

save_needed_always(p) == TRUE

\* lines 139-146
save_needed(p) == cookies_changed /\ (shutting_down(p) \/ ~recently_synced)

\* lines 148-155: what _save_cookies_if_changed raises when save_cookies
\* ends with exc
SaveErrors == {"OSError"}

save_raised_uncaught(exc) == exc

save_raised(exc) == IF exc = "OSError" THEN "none" ELSE exc

\* where p is when its _save_cookies_if_changed has returned; async_shutdown
\* then closes the API without another await
ended(p) == IF p = "post" THEN "idle" ELSE "done"

\* the save task created by the refresh starts
PostSaveStart ==
    /\ pc["post"] = "created"
    /\ LockAcquire("post")
    /\ UNCHANGED <<cookies_changed, recently_synced, recently_written, expiration, unsub_exp, scheduled,
                   unsub_final_write, issue, setup_result, poll, coord_frame>>

\* EVENT_HOMEASSISTANT_FINAL_WRITE fires; the listener was registered with
\* async_listen_once (lines 66-68)
FinalWrite ==
    /\ pc["final"] = "idle"
    /\ unsub_final_write
    /\ unsub_final_write' = FALSE
    /\ LockAcquire("final")
    /\ UNCHANGED <<cookies_changed, recently_synced, recently_written, expiration, unsub_exp, scheduled,
                   issue, setup_result, poll, coord_frame>>

\* with the lock held: return, or start the save_cookies job
SaveCheck(p) ==
    /\ p \in Savers
    /\ pc[p] = "locked"
    /\ IF save_needed(p)
       THEN /\ pc' = [pc EXCEPT ![p] = "job"]
            /\ UNCHANGED <<lock, waiters>>
       ELSE LockRelease([pc EXCEPT ![p] = ended(p)])
    /\ poll' = IF p = "post" /\ ~save_needed(p)
               THEN [poll EXCEPT !.save = "skipped"] ELSE poll
    /\ UNCHANGED <<cookies_changed, recently_synced, recently_written,
                   expiration, unsub_exp, scheduled, unsub_final_write, issue,
                   setup_result, coord_frame>>

\* save_cookies ends with exc: _cookies_file_data follows the cookies only
\* when nothing was raised (gm_loc_sharing.py lines 221-225); what was caught
\* is logged and the file counts as synced
SaveSaved(p, exc) ==
    /\ p \in Savers
    /\ pc[p] = "job"
    /\ cookies_changed' = (cookies_changed /\ exc # "none")
    /\ recently_written' = TRUE
    /\ IF save_raised(exc) = "none"
       THEN /\ CookiesFileSynced(expiration, shutting_down(p))
            /\ LockRelease([pc EXCEPT ![p] = ended(p)])
       ELSE /\ LockRelease([pc EXCEPT ![p] = IF p = "post" THEN "raised"
                                                         ELSE "done"])
            /\ UNCHANGED <<recently_synced, issue, unsub_exp, scheduled>>
    /\ poll' = IF p = "post"
               THEN [poll EXCEPT !.save = IF exc = "none" THEN "ok" ELSE exc]
               ELSE poll
    /\ UNCHANGED <<expiration, unsub_final_write, setup_result, coord_frame>>

\* async_shutdown (lines 76-90) up to its first await; file_changed tells
\* whether the entry now names another cookies file
ShutdownBegin(file_changed) ==
    /\ pc["shutdown"] = "idle"
    /\ pc["setup"] \in {"done", "failed"}
    /\ unsub_final_write' = FALSE
    /\ unsub_exp' = FALSE
    /\ scheduled' = unsub_expiration(scheduled, unsub_exp)
    /\ IF file_changed
       THEN /\ pc' = [pc EXCEPT !["shutdown"] = "unlink"]
            /\ UNCHANGED <<lock, waiters>>
       ELSE LockAcquire("shutdown")
    /\ UNCHANGED <<cookies_changed, recently_synced, recently_written, expiration, issue,
                   setup_result, poll, coord_frame>>

\* the unlink job ends; the API is closed
ShutdownUnlinked ==
    /\ pc["shutdown"] = "unlink"
    /\ pc' = [pc EXCEPT !["shutdown"] = "done"]
    /\ UNCHANGED <<lock, waiters, cookies_changed, recently_synced, recently_written, expiration,
                   unsub_exp, scheduled, unsub_final_write, issue, setup_result, poll,
                   coord_frame>>

\* the options flow checks the cookies file under the coordinator's lock
\* (config_flow.py lines 446-451), on an API session of its own
OptionsStart ==
    /\ pc["options"] = "idle"
    /\ pc["setup"] = "done"
    /\ LockAcquire("options")
    /\ UNCHANGED <<cookies_changed, recently_synced, recently_written, expiration, unsub_exp, scheduled,
                   unsub_final_write, issue, setup_result, poll, coord_frame>>

OptionsChecked ==
    /\ pc["options"] = "job"
    /\ LockRelease([pc EXCEPT !["options"] = "done"])
    /\ UNCHANGED <<cookies_changed, recently_synced, recently_written, expiration, unsub_exp, scheduled,
                   unsub_final_write, issue, setup_result, poll, coord_frame>>

\* 15 minutes pass without a sync
QuarterHourPasses ==
    /\ recently_synced \/ recently_written
    /\ recently_synced' = FALSE
    /\ recently_written' = FALSE
    /\ UNCHANGED <<lock, waiters, pc, cookies_changed, expiration, unsub_exp, scheduled,
                   unsub_final_write, issue, setup_result, poll, coord_frame>>

\* the scheduled callback runs: _create_issue (lines 174-188)
ExpirationWarning ==
    /\ unsub_exp
    /\ unsub_exp' = FALSE
    /\ scheduled' = scheduled - 1
    /\ issue' = TRUE
    /\ expiration' = IF expiration = "later" THEN "soon" ELSE expiration
    /\ UNCHANGED <<lock, waiters, pc, cookies_changed, recently_synced, recently_written,
                   unsub_final_write, setup_result, poll, coord_frame>>

InitCoord ==
    /\ InitCoordinator
    /\ InitNoEntity
    /\ all_uids = {}
    /\ cfg_uids = [c \in {} |-> {}]
    /\ last = NoCall
    /\ gmi_data = TRUE
    /\ ent_reg = [c \in ConfigIDs |-> {}]
    /\ phase = [c \in ConfigIDs |-> "absent"]
    /\ data = [c \in ConfigIDs |-> {}]
    /\ created_uids = [c \in ConfigIDs |-> {}]
    /\ add_entities = NoAdd
    /\ removed_uids = {}
    /\ observing = FALSE

StartJobStep == \E p \in Procs : StartJob(p)
SetupLoadedStep ==
    \/ \E exp \in Expirations : SetupLoaded("none", exp)
    \/ \E exc \in LoadErrors : SetupLoaded(exc, "none")
PollFetchedStep ==
    \E exc \in {"none"} \cup FetchErrors :
        \/ PollFetched(exc, FALSE, "none")
        \/ \E exp \in Expirations : PollFetched(exc, TRUE, exp)
SaveCheckStep == \E p \in Savers : SaveCheck(p)
SaveSavedStep == \E p \in Savers, exc \in {"none"} \cup SaveErrors : SaveSaved(p, exc)
ShutdownBeginStep == \E file_changed \in BOOLEAN : ShutdownBegin(file_changed)

NextCoord ==
    \/ SetupStart
    \/ StartJobStep
    \/ SetupLoadedStep
    \/ PollStart
    \/ PollFetchedStep
    \/ PollDone
    \/ PostSaveStart
    \/ FinalWrite
    \/ SaveCheckStep
    \/ SaveSavedStep
    \/ ShutdownBeginStep
    \/ ShutdownUnlinked
    \/ OptionsStart
    \/ OptionsChecked
    \/ QuarterHourPasses
    \/ ExpirationWarning

SpecCoord == InitCoord /\ [][NextCoord]_vars

\* The event loop runs every task that is ready, and every executor job
\* ends; when a refresh, the final-write event, a shutdown or an options flow
\* starts, and when time passes, is up to the environment.
FairCoord ==
    /\ WF_vars(StartJobStep)
    /\ WF_vars(SetupLoadedStep)
    /\ WF_vars(PollFetchedStep)
    /\ WF_vars(PollDone)
    /\ WF_vars(PostSaveStart)
    /\ WF_vars(SaveCheckStep)
    /\ WF_vars(SaveSavedStep)
    /\ WF_vars(ShutdownUnlinked)
    /\ WF_vars(OptionsChecked)

SpecCoordFair == SpecCoord /\ FairCoord

\* ------------------------------------- GMLocSharing.get_new_data (SpecApi)
\* line 241: isinstance(self._data, Sequence); a str is a Sequence too
is_sequence(resp) == resp.body \in {"list", "str"}

\* lines 244, 248: self._data[6] raises IndexError
index_error_off_by_one(resp) == resp.len < 6

index_error(resp) == resp.len <= 6

\* self._data[6]: an element of a list, a character of a str
element_6(resp) == IF resp.body = "list" THEN resp.at6 ELSE "char"

\* get_new_data (lines 227-249): the exception it raises, "none" if none
get_new_data(resp) ==
    IF resp.transport # "ok" THEN "RequestFailed"
    ELSE IF resp.body = "unparseable" THEN "InvalidData"
    ELSE IF ~is_sequence(resp) THEN "InvalidData"
    ELSE IF index_error(resp) THEN "InvalidData"
    ELSE IF element_6(resp) = "GgA=" THEN "InvalidCookies"
    ELSE "none"

InitApi ==
    /\ response \in Responses
    /\ outcome = "pending"
    /\ lock = "none"
    /\ waiters = <<>>
    /\ pc = [p \in Procs |-> "idle"]
    /\ cookies_changed = FALSE
    /\ recently_synced = FALSE
    /\ recently_written = FALSE
    /\ expiration = "none"
    /\ unsub_exp = FALSE
    /\ scheduled = 0
    /\ unsub_final_write = TRUE
    /\ issue = FALSE
    /\ setup_result = NoSetup
    /\ poll = NoPoll
    /\ last_update_success = TRUE
    /\ InitNoEntity
    /\ all_uids = {}
    /\ cfg_uids = [c \in {} |-> {}]
    /\ last = NoCall
    /\ gmi_data = TRUE
    /\ ent_reg = [c \in ConfigIDs |-> {}]
    /\ phase = [c \in ConfigIDs |-> "absent"]
    /\ data = [c \in ConfigIDs |-> {}]
    /\ created_uids = [c \in ConfigIDs |-> {}]
    /\ add_entities = NoAdd
    /\ removed_uids = {}
    /\ observing = FALSE

GetNewData ==
    /\ outcome = "pending"
    /\ outcome' = get_new_data(response)
    /\ UNCHANGED <<response, all_uids, cfg_uids, last, gmi_data, ent_reg, phase,
                   data, created_uids, add_entities, removed_uids, observing,
                   loc, misc,
                   skip_reason, max_gps_accuracy, cdata, added, upd, poll,
                   last_update_success, coord_vars>>

NextApi == GetNewData

SpecApi == InitApi /\ [][NextApi]_vars

\* ------------------------------------------------------------ properties
\* The IDs owned by configurations other than cid, read off the mapping.
OwnedElsewhere(cu, cid) == UNION { cu[c] : c \in DOMAIN cu \ {cid} }

OwnedHere(cu, cid) == UNION { cu[c] : c \in DOMAIN cu \cap {cid} }

\* C1: every unique ID is in at most one configuration's owned set, in every
\* state reachable from a seeded registry by take, release and remove calls.
C1_AtMostOneOwner ==
    \A a, b \in DOMAIN cfg_uids :
        a # b => cfg_uids[a] \cap cfg_uids[b] = {}

\* a take has run whose candidates held an ID that another configuration owns
C1_Witness ==
    /\ last.op = "take"
    /\ last.uids \cap OwnedElsewhere(cfg_uids, last.cid) # {}
    /\ last.ret # {}

\* C2: the global claimed set equals exactly the union of the per-configuration
\* owned sets.
C2_GlobalIsUnion ==
    all_uids = UNION { cfg_uids[c] : c \in DOMAIN cfg_uids }

\* a remove has run that dropped claims while another configuration holds some
C2_Witness ==
    /\ last.op = "remove"
    /\ last.pre_owned # {}
    /\ all_uids # {}

\* C3: first claimant wins: an ID of the candidates that another configuration
\* owns before take(B, S) is not returned, and stays with its owner.
C3_FirstClaimantWins ==
    [][LET B == last'.cid
           S == last'.uids
       IN (last'.op = "take" /\ Take(B, S)) =>
             \A A \in DOMAIN cfg_uids \ {B} : \A x \in S \cap cfg_uids[A] :
                 /\ x \notin last'.ret
                 /\ A \in DOMAIN cfg_uids' /\ x \in cfg_uids'[A]
                 /\ x \notin cfg_uids'[B]]_vars

\* take(B, {x}) has returned the empty set because x belongs to another
C3_Witness ==
    /\ last.op = "take"
    /\ Cardinality(last.uids) = 1
    /\ last.ret = {}
    /\ last.uids \subseteq OwnedElsewhere(cfg_uids, last.cid)

\* C4: take(cid, S) returns S minus the IDs other configurations own, and
\* owned(cid) afterwards is its previous value united with the returned set.
C4_TakeResult ==
    [][LET cid == last'.cid
           S == last'.uids
       IN (last'.op = "take" /\ Take(cid, S)) =>
             /\ last'.ret = S \ OwnedElsewhere(cfg_uids, cid)
             /\ cid \in DOMAIN cfg_uids'
             /\ cfg_uids'[cid] = OwnedHere(cfg_uids, cid) \cup last'.ret
             /\ last'.ret = S \cap cfg_uids'[cid]]_vars

\* a take has returned some but not all of its candidates, one of them new
C4_Witness ==
    /\ last.op = "take"
    /\ last.ret # {}
    /\ last.ret # last.uids
    /\ last.ret \ last.pre_owned # {}

\* C5: under any interleaving of the set-up paths and coordinator updates of
\* different configurations, no two configurations hold a tracked entity for
\* the same person ID: an entity is only ever created for an ID that no other
\* configuration owns, and its creator owns it for as long as it exists.
C5_NoDuplicateEntity ==
    /\ [](\A a, b \in ConfigIDs :
             /\ a # b => created_uids[a] \cap created_uids[b] = {}
             /\ created_uids[a] \subseteq OwnedHere(cfg_uids, a))
    /\ [][\A c \in ConfigIDs :
             (created_uids'[c] \ created_uids[c])
                 \cap OwnedElsewhere(cfg_uids, c) = {}]_vars

\* a loaded configuration's poll shows a person another configuration tracks
C5_Witness ==
    \E a, b \in ConfigIDs :
        /\ a # b
        /\ phase[a] = "loaded" /\ phase[b] = "loaded"
        /\ created_uids[a] \cap data[b] # {}

\* C6: release(A, x) when another configuration owns x changes nothing.
C6_ReleaseOfOthersIsNoOp ==
    [][\A x \in last'.uids :
       LET A == last'.cid
       IN (last'.op = "release" /\ Release(A, x)
                /\ x \in OwnedElsewhere(cfg_uids, A)) =>
             /\ all_uids' = all_uids
             /\ cfg_uids' = cfg_uids
             /\ x \in OwnedElsewhere(cfg_uids', A)]_vars

\* a release has been called for an ID that another configuration owns
C6_Witness ==
    /\ last.op = "release"
    /\ last.uids \subseteq OwnedElsewhere(cfg_uids, last.cid)

\* C7: release(A, x) when A owns x removes x from A's set and from the global
\* set, changes no other ownership, and any configuration can then take x.
C7_ReleaseOwn ==
    [][\A x \in last'.uids :
       LET A == last'.cid
       IN (last'.op = "release" /\ Release(A, x)
                /\ x \in OwnedHere(cfg_uids, A)) =>
             /\ all_uids' = all_uids \ {x}
             /\ DOMAIN cfg_uids' = DOMAIN cfg_uids
             /\ \A c \in DOMAIN cfg_uids :
                   cfg_uids'[c] = IF c = A THEN cfg_uids[c] \ {x} ELSE cfg_uids[c]
             /\ \A B \in ConfigIDs :
                   take_uids(all_uids', cfg_uids', B, {x}) = {x}]_vars

\* a configuration has released an ID it owned
C7_Witness ==
    /\ last.op = "release"
    /\ last.uids \subseteq last.pre_owned
    /\ last.exc = "none"

\* C8: remove(A) drops every claim of A and nothing else, and any ID A owned
\* can then be taken by any configuration.
C8_RemoveDropsAll ==
    [][LET A == last'.cid
       IN (last'.op = "remove" /\ Remove(A)) =>
             /\ OwnedHere(cfg_uids', A) = {}
             /\ \A x \in OwnedHere(cfg_uids, A) :
                   /\ x \notin all_uids'
                   /\ \A c \in DOMAIN cfg_uids' : x \notin cfg_uids'[c]
                   /\ \A B \in ConfigIDs :
                         /\ take_uids(all_uids', cfg_uids', B, {x}) = {x}
                         /\ x \in take_cfg(all_uids', cfg_uids', B, {x})[B]
             /\ \A c \in DOMAIN cfg_uids \ {A} :
                   c \in DOMAIN cfg_uids' /\ cfg_uids'[c] = cfg_uids[c]]_vars

\* a configuration that owned IDs has been removed while another owns some
C8_Witness ==
    /\ last.op = "remove"
    /\ last.pre_owned # {}
    /\ \E c \in DOMAIN cfg_uids : cfg_uids[c] # {}

\* C9: empty evaluates to true if no configuration owns any ID, and to false
\* otherwise.
C9_EmptyIffNothingOwned ==
    last.op = "empty" =>
        IF \A c \in DOMAIN cfg_uids : cfg_uids[c] = {}
        THEN last.val = "True"
        ELSE last.val = "False"

\* C10: take includes the IDs the caller already owns, and a second identical
\* take returns the same set and leaves the registry unchanged.
C10_TakeIdempotent ==
    [][LET cid == last'.cid
           S == last'.uids
       IN (last'.op = "take" /\ Take(cid, S)) =>
             /\ S \cap OwnedHere(cfg_uids, cid) \subseteq last'.ret
             /\ take_uids(all_uids', cfg_uids', cid, S) = last'.ret
             /\ take_all(all_uids', cfg_uids', cid, S) = all_uids'
             /\ take_cfg(all_uids', cfg_uids', cid, S) = cfg_uids']_vars

\* a take has returned both an ID the caller already owned and a new one
C10_Witness ==
    /\ last.op = "take"
    /\ last.ret \cap last.pre_owned # {}
    /\ last.ret \ last.pre_owned # {}

\* C11: owned, own and owned_by_others leave the registry unchanged for every
\* cid, also one without an entry, and owned_by_others(cid) is the global set
\* minus owned(cid), which is the union of the other configurations' sets.
C11_QueriesArePure ==
    [][LET cid == last'.cid
       IN (\/ last'.op = "owned" /\ Owned(cid)
           \/ last'.op = "own" /\ (\E u \in last'.uids : Own(cid, u))
           \/ last'.op = "owned_by_others" /\ OwnedByOthers(cid)) =>
             /\ all_uids' = all_uids
             /\ cfg_uids' = cfg_uids
             /\ last'.op = "owned" => last'.ret = OwnedHere(cfg_uids, cid)
             /\ last'.op = "own" =>
                   (last'.val = "True") = (last'.uids \subseteq OwnedHere(cfg_uids, cid))
             /\ last'.op = "owned_by_others" =>
                   /\ last'.ret = all_uids \ OwnedHere(cfg_uids, cid)
                   /\ last'.ret = OwnedElsewhere(cfg_uids, cid)]_vars

\* owned_by_others was asked for a configuration the registry has no entry
\* for, while other configurations own IDs
C11_Witness ==
    /\ last.op = "owned_by_others"
    /\ last.cid \notin DOMAIN cfg_uids
    /\ last.ret # {}


\* ------------------------------------------- location filter (SpecLoc)
\* the latest handler run called _update_loc: upd.prev is the location held
\* when it was called, cdata.loc the candidate, loc the location held after
UpdateLocCalled == upd.outcome \notin {"none", "no_data"}

\* C12: a candidate whose timestamp is not later than the held one's is
\* rejected: the held location stays, whatever the accuracies and the limit
C12_TimestampRule ==
    (/\ UpdateLocCalled
     /\ upd.prev # NoLoc
     /\ cdata.loc.last_seen <= upd.prev.last_seen) => loc = upd.prev

C12_Witness ==
    /\ UpdateLocCalled
    /\ upd.prev # NoLoc
    /\ cdata.loc.last_seen = upd.prev.last_seen
    /\ cdata.loc.gps_accuracy < upd.prev.gps_accuracy
    /\ cdata.loc.gps_accuracy <= max_gps_accuracy
    /\ loc = upd.prev
    /\ loc # cdata.loc

\* C13: with a held accuracy within the limit (0 included) and a strictly
\* newer candidate, the candidate is rejected when its accuracy is above the
\* limit and accepted otherwise
C13_AccuratePreviousRule ==
    (/\ UpdateLocCalled
     /\ upd.prev # NoLoc
     /\ upd.prev.gps_accuracy >= 0
     /\ upd.prev.gps_accuracy <= max_gps_accuracy
     /\ cdata.loc.last_seen > upd.prev.last_seen)
    => IF cdata.loc.gps_accuracy > max_gps_accuracy
       THEN loc = upd.prev
       ELSE loc = cdata.loc

\* C14: with a held accuracy above the limit and a strictly newer candidate,
\* the candidate is rejected exactly when its accuracy is strictly greater
\* than the held one
C14_InaccuratePreviousRule ==
    (/\ UpdateLocCalled
     /\ upd.prev # NoLoc
     /\ upd.prev.gps_accuracy > max_gps_accuracy
     /\ cdata.loc.last_seen > upd.prev.last_seen)
    => IF cdata.loc.gps_accuracy > upd.prev.gps_accuracy
       THEN loc = upd.prev
       ELSE loc = cdata.loc

C14_Witness ==
    /\ UpdateLocCalled
    /\ upd.prev # NoLoc
    /\ upd.prev.gps_accuracy > max_gps_accuracy
    /\ cdata.loc.last_seen > upd.prev.last_seen
    /\ cdata.loc.gps_accuracy = upd.prev.gps_accuracy
    /\ cdata.loc.gps_accuracy > max_gps_accuracy
    /\ loc = cdata.loc

\* C15: with no held location the candidate is accepted and becomes the held
\* location, for every accuracy and timestamp
C15_BootstrapRule ==
    (UpdateLocCalled /\ upd.prev = NoLoc) => loc = cdata.loc

C15_Witness ==
    /\ UpdateLocCalled
    /\ upd.prev = NoLoc
    /\ cdata.loc.gps_accuracy > max_gps_accuracy
    /\ loc = cdata.loc

\* C16: a handler run leaves the held location alone unless _update_loc
\* accepts, and then the held location is exactly the candidate; a listening
\* entity compares the candidate with the location it holds
C16_ChangesOnlyOnAcceptance ==
    [][/\ (added /\ UpdateLocCalled') => upd'.prev = loc
       /\ upd'.outcome = "accepted" => loc' = cdata'.loc
       /\ (added /\ upd'.outcome # "accepted") => loc' = loc
       /\ (UpdateLocCalled' /\ upd'.outcome # "accepted") => loc' = upd'.prev]_vars

C16_Witness ==
    /\ added
    /\ upd.outcome \in {"backwards", "same", "limit", "worse"}
    /\ upd.prev # NoLoc
    /\ loc = upd.prev
    /\ loc.last_seen < cdata.loc.last_seen
    /\ loc.gps_accuracy # cdata.loc.gps_accuracy


\* C20: a refresh whose fetch raised RequestFailed or InvalidData raises
\* UpdateFailed, creates no save task, leaves the published data and the
\* entity's held location as they were, and another refresh can follow
C20_FailedPollChangesNothing ==
    /\ [][poll'.exc \in {"RequestFailed", "InvalidData"} =>
              /\ poll'.raised = "UpdateFailed"
              /\ ~poll'.save_task
              /\ cdata' = cdata
              /\ loc' = loc]_vars
    /\ [](poll.raised = "UpdateFailed" => ENABLED RefreshStep)

C20_Witness ==
    /\ poll.exc = "InvalidData"
    /\ poll.raised = "UpdateFailed"
    /\ ~last_update_success
    /\ upd.outcome \in {"limit", "worse"}
    /\ cdata.loc.last_seen > loc.last_seen
    /\ loc # NoLoc


\* ------------------------------------------------ coordinator (SpecCoord)
\* C17: at most one of load_cookies, get_new_data and save_cookies runs on
\* the coordinator's API session at a time, and the process that runs it
\* holds cookie_lock
C17_OneSessionJobAtATime ==
    \A p \in Procs :
        running(p) # "none" =>
            /\ lock = p
            /\ \A q \in Procs \ {p} : running(q) = "none"

C17_Witness ==
    /\ running("poll") = "get_new_data"
    /\ pc["final"] = "wait"
    /\ pc["shutdown"] = "wait"

\* C18: once async_shutdown has returned, no expiration-warning callback is
\* scheduled
C18_NoCallbackAfterShutdown == pc["shutdown"] = "done" => ~unsub_exp

\* C19: _async_setup and _async_update_data raise ConfigEntryAuthFailed
\* exactly when load_cookies raised InvalidCookiesFile or InvalidCookies, or
\* the fetch raised InvalidCookies
C19_AuthFailedIffInvalidCredentials ==
    /\ setup_result.raised = "ConfigEntryAuthFailed"
           <=> setup_result.exc \in {"InvalidCookiesFile", "InvalidCookies"}
    /\ poll.raised = "ConfigEntryAuthFailed" <=> poll.exc = "InvalidCookies"

C19_Witness ==
    /\ setup_result = [exc |-> "none", raised |-> "none"]
    /\ pc["setup"] = "done"
    /\ poll.exc = "InvalidCookies"
    /\ poll.raised = "ConfigEntryAuthFailed"
    /\ pc["poll"] = "idle"


\* C21: when the save task's save_cookies raises OSError the task returns
\* normally, so _async_update_data raises nothing and returns; the cookies
\* stay marked as changed, and the next save that is due (15 minutes after
\* the sync, or a shutting-down one) starts save_cookies again
C21_SaveFailureIsNotFatal ==
    /\ [][/\ (pc["post"] = "job" /\ poll'.save = "OSError") =>
                 (cookies_changed' /\ pc'["post"] = "idle")
          /\ \A p \in Savers :
                 (/\ pc[p] = "locked"
                  /\ pc'[p] # "locked"
                  /\ cookies_changed
                  /\ shutting_down(p) \/ ~recently_synced) => pc'[p] = "job"]_vars
    /\ [](poll.save = "OSError" => poll.raised = "none")

C21_Witness ==
    /\ poll.save = "OSError"
    /\ poll.raised = "none"
    /\ pc["poll"] = "idle"
    /\ cookies_changed
    /\ pc["shutdown"] = "job"

\* C22: save_cookies starts only when the cookies are marked as changed and
\* either the save is a shutting-down one or 15 minutes have passed since
\* the last sync, and then also since the last run of save_cookies
C22_WriteOnlyWhenChangedAndDue ==
    [][\A p \in Savers :
           (pc[p] = "locked" /\ pc'[p] = "job") =>
               /\ cookies_changed
               /\ shutting_down(p) \/ (~recently_synced /\ ~recently_written)]_vars

C22_Witness ==
    /\ pc["post"] = "job"
    /\ cookies_changed
    /\ ~recently_synced
    /\ setup_result.exc = "none"
    /\ pc["final"] = "wait"


\* -------------------------------------------------- get_new_data (SpecApi)
\* C23: get_new_data raises RequestFailed exactly for a failed request;
\* otherwise InvalidData exactly when the text does not parse, the parsed
\* value is not a sequence or it has no offset 6; otherwise InvalidCookies
\* exactly when the element at offset 6 is "GgA="; otherwise nothing
C23_OneOutcomePerResponse ==
    outcome # "pending" =>
        LET failed == response.transport # "ok"
            malformed == \/ response.body = "unparseable"
                         \/ response.body \notin {"list", "str"}
                         \/ response.len < 7
            invalid_session == response.body = "list" /\ response.at6 = "GgA="
        IN  /\ outcome = "RequestFailed" <=> failed
            /\ outcome = "InvalidData" <=> (~failed /\ malformed)
            /\ outcome = "InvalidCookies" <=>
                   (~failed /\ ~malformed /\ invalid_session)
            /\ outcome = "none" <=> (~failed /\ ~malformed /\ ~invalid_session)

C23_Witness ==
    /\ outcome = "InvalidData"
    /\ response.transport = "ok"
    /\ response.body = "list"
    /\ response.len = 6
    /\ response.at6 = "GgA="


\* ------------------------------------------- shared data (SpecInteg)
\* C24: a set-up creates hass.data[DOMAIN] when there is none and otherwise
\* leaves the other configurations' claims as they are; async_remove_entry
\* tears it down exactly when, with the removed configuration's claims
\* dropped, no coordinator is left and no configuration owns an ID
C24_SharedDataLifecycle ==
    [][\A cid \in ConfigIDs :
           /\ phase'[cid] = "setup" /\ phase[cid] # "setup" =>
                  /\ gmi_data'
                  /\ gmi_data =>
                         \A c \in ConfigIDs \ {cid} :
                             owned(cfg_uids', c) = owned(cfg_uids, c)
           /\ (phase'[cid] = "removed" /\ phase[cid] # "removed" /\ gmi_data) =>
                  (~gmi_data' <=> (coordinators = {} /\ all_uids' = {}))]_vars


\* --------------------------------------- location filter, again (SpecLoc)
\* C25: over the poll updates delivered to a listening entity, the timestamp
\* of the held location never decreases, and every replacement of the held
\* location strictly increases it (no location counts as timestamp 0)
C25_TimestampNeverDecreases ==
    [][added => /\ loc'.last_seen >= loc.last_seen
                /\ loc' # loc => loc'.last_seen > loc.last_seen]_vars

C25_Witness ==
    /\ added
    /\ poll.save_task
    /\ upd.outcome = "backwards"
    /\ loc = upd.prev
    /\ cdata.loc.last_seen < loc.last_seen


\* C26: once a listening entity holds an accurate location (accuracy from 0
\* up to the threshold), the location it holds after a further poll update
\* is accurate too
C26_AccurateStaysAccurate ==
    [][(/\ added
        /\ loc # NoLoc
        /\ loc.gps_accuracy >= 0
        /\ loc.gps_accuracy <= max_gps_accuracy) =>
           loc'.gps_accuracy <= max_gps_accuracy]_vars


\* C27: whatever location is held, a candidate that is strictly newer and
\* whose accuracy is at or below the threshold is accepted
C27_AccurateNewerAccepted ==
    (/\ added
     /\ UpdateLocCalled
     /\ cdata.loc.last_seen > upd.prev.last_seen
     /\ cdata.loc.gps_accuracy <= max_gps_accuracy) => loc = cdata.loc

C27_Witness ==
    /\ added
    /\ poll.save_task
    /\ UpdateLocCalled
    /\ upd.prev # NoLoc
    /\ upd.prev.gps_accuracy > max_gps_accuracy
    /\ cdata.loc.last_seen > upd.prev.last_seen
    /\ cdata.loc.gps_accuracy <= max_gps_accuracy
    /\ loc = cdata.loc


\* C28: while the held location's accuracy is above the threshold, a
\* candidate that replaces it has an accuracy value at most the held one
C28_InaccurateNeverWorsens ==
    [][(/\ added
        /\ loc # NoLoc
        /\ loc.gps_accuracy > max_gps_accuracy
        /\ loc' # loc) => loc'.gps_accuracy <= loc.gps_accuracy]_vars

C28_Witness ==
    /\ added
    /\ poll.save_task
    /\ upd.outcome = "accepted"
    /\ upd.prev # NoLoc
    /\ upd.prev.gps_accuracy > max_gps_accuracy
    /\ loc = cdata.loc
    /\ loc.gps_accuracy > max_gps_accuracy
    /\ loc.gps_accuracy < upd.prev.gps_accuracy


\* C29: delivering the candidate that was just delivered once more leaves
\* the held location as it is: the filter applied to its own result and the
\* same candidate returns that result, and a refresh that notifies the entity
\* with unchanged data does not change the held location
C29_RepeatedSampleIdempotent ==
    /\ [](UpdateLocCalled =>
              update_loc(loc, cdata.loc, max_gps_accuracy) = loc)
    /\ [][(added /\ UpdateLocCalled /\ UpdateLocCalled' /\ cdata' = cdata) =>
              loc' = loc]_vars

C29_Witness ==
    /\ added
    /\ poll.raised = "UpdateFailed"
    /\ upd.outcome = "same"
    /\ upd.prev = cdata.loc
    /\ loc = cdata.loc


\* C30: when _update_loc rejects a candidate for a backwards timestamp or for
\* accuracy, a note is written exactly when the reason text differs from the
\* recorded one, and the recorded reason becomes that text; a rejection for an
\* equal timestamp and an acceptance write no note and leave the recorded
\* reason as it was
C30_RateLimitedDiagnostics ==
    [][UpdateLocCalled' =>
          LET reason == ignore_reason(upd'.prev, cdata'.loc, max_gps_accuracy)
          IN  /\ upd'.outcome \in {"backwards", "limit", "worse"} =>
                     /\ upd'.logged <=> reason # skip_reason
                     /\ skip_reason' = reason
                     /\ reason # NoReason
              /\ upd'.outcome \in {"same", "accepted"} =>
                     /\ ~upd'.logged
                     /\ skip_reason' = skip_reason]_vars

C30_Witness ==
    /\ added
    /\ upd.outcome \in {"limit", "worse"}
    /\ ~upd.logged
    /\ skip_reason = ignore_reason(upd.prev, cdata.loc, max_gps_accuracy)
    /\ poll.raised = "UpdateFailed"


\* C31: when a listening entity is notified of an update that contains its
\* person, its misc data becomes the update's misc data whether _update_loc
\* accepts or rejects the location; when the update does not contain the
\* person, neither misc nor the held location changes
C31_MiscFollowsEveryUpdate ==
    [][added => /\ UpdateLocCalled' => misc' = cdata'.misc
                /\ upd'.outcome = "no_data" => (misc' = misc /\ loc' = loc)]_vars

C31_Witness ==
    /\ added
    /\ poll.save_task
    /\ upd.outcome \in {"backwards", "limit", "worse"}
    /\ loc = upd.prev
    /\ upd.misc \in Miscs
    /\ misc # upd.misc
    /\ misc = cdata.misc


C33_OneEntityPerPerson ==
    [][\A c \in ConfigIDs :
           add_entities'.cid = c =>
               /\ add_entities'.uids \cap created_uids[c] = {}
               /\ add_entities'.uids # {}
               /\ created_uids'[c] = created_uids[c] \cup add_entities'.uids]_vars

\* an update creates an entity while a person created earlier is still seen
C33_Witness ==
    \E c \in ConfigIDs :
        /\ phase[c] = "loaded"
        /\ add_entities.cid = c
        /\ (created_uids[c] \ add_entities.uids) \cap data[c] # {}


\* C34: at platform set-up a configuration creates an entity for every ID it
\* owns in the registry, seen in the first poll's data or not, and for every
\* person in that data whom no other configuration owns, and for no other ID
C34_PlatformSetupCreates ==
    [][\A c \in ConfigIDs :
           (phase[c] = "refreshed" /\ phase'[c] = "loaded") =>
               LET expected == OwnedHere(cfg_uids, c)
                                   \cup (data[c] \ OwnedElsewhere(cfg_uids, c))
               IN  /\ created_uids'[c] = expected
                   /\ expected # {} => add_entities' = [cid |-> c, uids |-> expected]
                   /\ expected = {} => add_entities' = NoAdd
                   /\ created_uids'[c] \cap OwnedElsewhere(cfg_uids, c) = {}]_vars

\* the set-up created an entity for an owned person missing from the poll,
\* and the poll showed a person that another configuration owns
C34_Witness ==
    \E c \in ConfigIDs :
        /\ phase[c] = "loaded"
        /\ add_entities = [cid |-> c, uids |-> created_uids[c]]
        /\ add_entities.uids \ data[c] # {}
        /\ data[c] \cap OwnedElsewhere(cfg_uids, c) # {}


\* a coordinator update of configuration b whose data contains person x
UpdateSeeing(b, x) ==
    \E people \in SUBSET UniqueIDs : x \in people /\ CoordinatorUpdate(b, people)

Owners(x) == { c \in DOMAIN cfg_uids : x \in cfg_uids[c] }

OneOwnerAndEntity(x) ==
    /\ Cardinality(Owners(x)) = 1
    /\ \A c \in ConfigIDs : x \in ent_reg[c] <=> c \in Owners(x)

\* C35: while another configuration owns x, an update of b that sees x
\* creates no entity for x; the remove call of async_remove_entry leaves
\* what the configuration owned unowned; an update of b that sees an unowned x takes it and creates its
\* entity; and if b's updates keep seeing x, then after a removal released x
\* it eventually has exactly one owner and one entity again
C35_OwnershipHandOver ==
    /\ [][\A b \in ConfigIDs, x \in UniqueIDs :
             /\ (UpdateSeeing(b, x) /\ x \in OwnedElsewhere(cfg_uids, b)) =>
                    /\ x \notin created_uids'[b]
                    /\ x \notin OwnedHere(cfg_uids', b)
             /\ (RemoveEntry(b) /\ gmi_data /\ x \in OwnedHere(cfg_uids, b)) =>
                    /\ x \notin all_uids'
                    /\ Owners(x)' = {}
             /\ (UpdateSeeing(b, x) /\ x \notin all_uids) =>
                    /\ Owners(x)' = {b}
                    /\ add_entities'.cid = b
                    /\ x \in add_entities'.uids]_vars
    /\ \A b \in ConfigIDs, x \in UniqueIDs :
           []<><<UpdateSeeing(b, x)>>_vars =>
               ((x \in removed_uids) ~> OneOwnerAndEntity(x))

\* b, which had created another entity before, took x after a removal
\* released it, and created x's entity in a coordinator update
C35_Witness ==
    \E b \in ConfigIDs, x \in UniqueIDs :
        /\ x \in removed_uids
        /\ phase[b] = "loaded"
        /\ add_entities.cid = b
        /\ x \in add_entities.uids
        /\ created_uids[b] \ add_entities.uids # {}
        /\ Owners(x) = {b}


\* ------------------------------------------------- registry, again (Spec)
\* C36: in every registry state reached from a seeded registry by take,
\* release and remove, the assertion of `empty` holds: when _all_uids is
\* empty, _cfg_uids has no key
C36_EmptyAssertionHolds ==
    all_uids = {} => DOMAIN cfg_uids = {}


\* C37: release(cid, uid) for a uid that nobody owns raises nothing and
\* leaves the registry unchanged, for every cid, one without a key in
\* _cfg_uids included
C37_ReleaseOfUnownedIsNoOp ==
    [][\A x \in last'.uids :
           (last'.op = "release" /\ Release(last'.cid, x) /\ x \notin all_uids) =>
               /\ last'.exc = "none"
               /\ all_uids' = all_uids
               /\ cfg_uids' = cfg_uids]_vars


\* ---------------------------------------- coordinator, again (SpecCoord)
\* C38: when async_shutdown closes the API session, on either of its paths,
\* no other task holds cookie_lock and no fetch or cookie save on the session
\* is running
C38_CloseOnlyWhenIdle ==
    [][(pc["shutdown"] # "done" /\ pc'["shutdown"] = "done") =>
           /\ lock \in {"none", "shutdown"}
           /\ \A p \in Procs \ {"shutdown"} : running(p) = "none"]_vars


\* C39: a task that holds cookie_lock is inside its async with block, never
\* waiting for the lock or for the save task; and, every executor job ending,
\* each task that waits for the lock, holds it or (the refresh) awaits its
\* save task eventually is past all of that, with the lock given up
InLock == {"locked", "job"}

Busy == {"wait", "await_save"} \cup InLock

C39_LockNeverDeadlocks ==
    /\ [](\A p \in Procs : lock = p => pc[p] \in InLock)
    /\ \A p \in Procs :
          (pc[p] \in Busy) ~> (pc[p] \notin Busy /\ lock # p)

\* the refresh has left the lock and awaits its save task, which holds the
\* lock while the final-write save and the shutdown wait for it
C39_Witness ==
    /\ pc["poll"] = "await_save"
    /\ lock = "post"
    /\ pc["final"] = "wait"
    /\ pc["shutdown"] = "wait"


\* C40: a coordinator has at most one expiration-warning callback scheduled
\* at any time, and it is the one behind _unsub_exp
C40_AtMostOneCallback ==
    /\ scheduled <= 1
    /\ unsub_exp <=> scheduled = 1

\* cookies were loaded and later saved, _cookies_file_synced ran for both,
\* and a callback is scheduled
C40_Witness ==
    /\ pc["setup"] = "done"
    /\ poll.save = "ok"
    /\ expiration = "later"
    /\ recently_synced
    /\ scheduled = 1

====
